---------------------------- MODULE Spec2Model ----------------------------
(***************************************************************************)
(* A model of universal-rsa-crypto (src/src/index.ts): the UniversalRSA    *)
(* engine (constructor, encrypt, decrypt, sign, verify), the key generator *)
(* (generateKeys), the key codec (exportKey, importPublicKey,              *)
(* importPrivateKey) and the data codec (dataToBigInt, bigIntToData,       *)
(* bigIntToBase64, base64ToBigInt).                                        *)
(*                                                                         *)
(* Representation.  A JavaScript string is a sequence of code points, a    *)
(* Buffer a sequence of bytes (0..255), a hex string a sequence of nibbles *)
(* (0..15).  A bigint read from data or from a transport string is kept as *)
(* its canonical hex digits (no leading zero nibble, 0n is the empty       *)
(* sequence), so it has no width limit; the key fields e, d, n and the     *)
(* results of modular exponentiation are integers.                         *)
(***************************************************************************)
EXTENDS Integers, Sequences, FiniteSets, TLC

VARIABLES
  pc,      \* generateKeys: "idle", "awaitP", "awaitQ" or "done"
  bits,    \* generateKeys: the bitLength argument of the running call
  p, q,    \* generateKeys: the locals p and q (0 before their first draw)
  n, phi,  \* generateKeys: the locals n and phi
  calls,   \* generateKeys calls that run concurrently: for each its position,
           \* its bitLength, its locals p, q, n, phi and its returned pair
  pair,    \* the KeyPair the generateKeys call returned (<<>>: none yet)
  eng,     \* the engine instance: [publicKey, privateKey], each <<>> (null) or <<key>>
  wire,    \* the last ciphertext or signature string produced, with its origin
  res      \* the last call and its outcome

vars == <<pc, bits, p, q, n, phi, calls, pair, eng, wire, res>>

genVars == <<pc, bits, p, q, n, phi, calls>>

(***************************************************************************)
(* Bounds of the model.                                                    *)
(***************************************************************************)
\* Longest string over Alphabet that is enumerated as a data value.
MaxStrLen == 1

\* Largest integer that is enumerated as an input of the transport encoding.
MaxInt == 300

(***************************************************************************)
(* Sequences.                                                              *)
(***************************************************************************)
Range(s) == { s[i] : i \in DOMAIN s }

Drop(s, k) == IF k >= Len(s) THEN <<>> ELSE SubSeq(s, k + 1, Len(s))

Take(s, k) == IF k >= Len(s) THEN s ELSE SubSeq(s, 1, k)

RECURSIVE Flatten(_)
Flatten(ss) == IF ss = <<>> THEN <<>> ELSE Head(ss) \o Flatten(Tail(ss))

(***************************************************************************)
(* bigint-crypto-utils: modPow, gcd, modInv over the integers.             *)
(***************************************************************************)
\* PowLoop with the base squared before it is multiplied in.
RECURSIVE PowLoopSquareFirst(_, _, _, _)
PowLoopSquareFirst(b, ex, m, acc) ==
  IF ex = 0 THEN acc
  ELSE PowLoopSquareFirst((b * b) % m, ex \div 2, m,
                          IF ex % 2 = 1 THEN (acc * ((b * b) % m)) % m ELSE acc)

\* bcu.modPow(b, e, n): b is first reduced into Zn, then square-and-multiply.
RECURSIVE PowLoop(_, _, _, _)
PowLoop(b, ex, m, acc) ==
  IF ex = 0 THEN acc
  ELSE PowLoop((b * b) % m, ex \div 2, m,
               IF ex % 2 = 1 THEN (acc * b) % m ELSE acc)

modPow(b, ex, m) == IF m = 1 THEN 0 ELSE PowLoop(b % m, ex, m, 1)

\* bcu.gcd(a, b): Euclid's algorithm, the remainder computed before each step.
RECURSIVE gcd(_, _)
gcd(a, b) ==
  IF b = 0 THEN a
  ELSE CHOOSE g \in { gcd(y, r) : y \in {b}, r \in {a % b} } : TRUE

\* The extended Euclidean algorithm: <<g, x, y>> with a*x + b*y = g.
RECURSIVE eGcd(_, _)
eGcd(a, b) ==
  IF b = 0 THEN <<a, 1, 0>>
  ELSE CHOOSE g \in
         { <<r[1], r[3], r[2] - k * r[3]>> :
             k \in {a \div b},
             r \in UNION { { eGcd(y, z) : y \in {b} } : z \in {a % b} } } : TRUE

\* modInv returning the other Bezout coefficient.
modInvOther(a, m) == eGcd(a % m, m)[3] % m

\* bcu.modInv(a, n): the inverse of a in Zn (the caller has checked gcd = 1).
modInv(a, m) == eGcd(a % m, m)[2] % m

(***************************************************************************)
(* Node's Buffer: UTF-8, hex and Base64.                                   *)
(***************************************************************************)
\* The UTF-8 bytes of one code point (a Unicode scalar value).
Utf8OfCodePoint(c) ==
  IF c < 128 THEN <<c>>
  ELSE IF c < 2048 THEN <<192 + c \div 64, 128 + (c % 64)>>
  ELSE IF c < 65536
    THEN <<224 + c \div 4096, 128 + ((c \div 64) % 64), 128 + (c % 64)>>
  ELSE <<240 + c \div 262144, 128 + ((c \div 4096) % 64),
         128 + ((c \div 64) % 64), 128 + (c % 64)>>

\* Buffer.from(str, 'utf8')
BufferFromUtf8(str) == Flatten([i \in DOMAIN str |-> Utf8OfCodePoint(str[i])])

\* How many continuation bytes the lead byte b announces (-1: not a lead byte).
Utf8Need(b) ==
  IF b < 128 THEN 0
  ELSE IF b >= 194 /\ b <= 223 THEN 1
  ELSE IF b >= 224 /\ b <= 239 THEN 2
  ELSE IF b >= 240 /\ b <= 244 THEN 3
  ELSE -1

\* The range the k-th byte after lead byte b must lie in (no overlong forms, no
\* surrogates, nothing above U+10FFFF).
Utf8Lower(b, k) ==
  IF k = 1 /\ b = 224 THEN 160 ELSE IF k = 1 /\ b = 240 THEN 144 ELSE 128

Utf8Upper(b, k) ==
  IF k = 1 /\ b = 237 THEN 159 ELSE IF k = 1 /\ b = 244 THEN 143 ELSE 191

\* The number of well-formed continuation bytes that follow the lead byte at i,
\* counted up to need.
RECURSIVE Utf8Good(_, _, _, _)
Utf8Good(buf, i, need, k) ==
  IF k > need \/ i + k > Len(buf) THEN k - 1
  ELSE IF buf[i + k] >= Utf8Lower(buf[i], k) /\ buf[i + k] <= Utf8Upper(buf[i], k)
    THEN Utf8Good(buf, i, need, k + 1)
  ELSE k - 1

Utf8Value(buf, i, need) ==
  IF need = 0 THEN buf[i]
  ELSE IF need = 1 THEN (buf[i] - 192) * 64 + (buf[i + 1] - 128)
  ELSE IF need = 2
    THEN (buf[i] - 224) * 4096 + (buf[i + 1] - 128) * 64 + (buf[i + 2] - 128)
  ELSE (buf[i] - 240) * 262144 + (buf[i + 1] - 128) * 4096
       + (buf[i + 2] - 128) * 64 + (buf[i + 3] - 128)

\* buffer.toString('utf8'): an ill-formed sequence decodes to U+FFFD (65533) and
\* decoding resumes at the byte that broke it.
RECURSIVE Utf8From(_, _)
Utf8From(buf, i) ==
  IF i > Len(buf) THEN <<>>
  ELSE LET need == Utf8Need(buf[i])
           good == IF need < 0 THEN 0 ELSE Utf8Good(buf, i, need, 1)
       IN  IF need >= 0 /\ good = need
             THEN <<Utf8Value(buf, i, need)>> \o Utf8From(buf, i + need + 1)
           ELSE <<65533>> \o Utf8From(buf, i + good + 1)

BufferToUtf8(buf) == Utf8From(buf, 1)

\* buffer.toString('hex'): two nibbles a byte.
BufferToHex(buf) ==
  [i \in 1..(2 * Len(buf)) |->
     IF i % 2 = 1 THEN buf[(i + 1) \div 2] \div 16 ELSE buf[i \div 2] % 16]

\* Buffer.from(hex, 'hex') of a hex string of even length.
BufferFromHex(hex) ==
  [i \in 1..(Len(hex) \div 2) |-> hex[2 * i - 1] * 16 + hex[2 * i]]

\* The character of Base64 digit v (0..63): A-Z, a-z, 0-9, '+', '/'.
B64Char(v) ==
  IF v < 26 THEN 65 + v
  ELSE IF v < 52 THEN 97 + (v - 26)
  ELSE IF v < 62 THEN 48 + (v - 52)
  ELSE IF v = 62 THEN 43 ELSE 47

\* unbase64: the digit of a character, 64 for a character that is none.  Node
\* also reads the URL-safe '-' and '_'.
B64Value(c) ==
  IF c >= 65 /\ c <= 90 THEN c - 65
  ELSE IF c >= 97 /\ c <= 122 THEN c - 97 + 26
  ELSE IF c >= 48 /\ c <= 57 THEN c - 48 + 52
  ELSE IF c = 43 \/ c = 45 THEN 62
  ELSE IF c = 47 \/ c = 95 THEN 63
  ELSE 64

\* buffer.toString('base64'): three bytes to four characters, '=' (61) padding.
RECURSIVE BufferToBase64(_)
BufferToBase64(buf) ==
  IF Len(buf) = 0 THEN <<>>
  ELSE IF Len(buf) = 1
    THEN <<B64Char(buf[1] \div 4), B64Char((buf[1] % 4) * 16), 61, 61>>
  ELSE IF Len(buf) = 2
    THEN <<B64Char(buf[1] \div 4),
           B64Char((buf[1] % 4) * 16 + buf[2] \div 16),
           B64Char((buf[2] % 16) * 4), 61>>
  ELSE <<B64Char(buf[1] \div 4),
         B64Char((buf[1] % 4) * 16 + buf[2] \div 16),
         B64Char((buf[2] % 16) * 4 + buf[3] \div 64),
         B64Char(buf[3] % 64)>> \o BufferToBase64(Drop(buf, 3))

\* The Base64 digits Node's decoder reads from a string: a character that is no
\* Base64 digit is skipped, and the first '=' ends the decoding.
RECURSIVE B64Digits(_, _)
B64Digits(str, i) ==
  IF i > Len(str) \/ str[i] = 61 THEN <<>>
  ELSE IF B64Value(str[i]) < 64 THEN <<B64Value(str[i])>> \o B64Digits(str, i + 1)
  ELSE B64Digits(str, i + 1)

\* Four digits to three bytes; a last group of two or three digits gives one or
\* two bytes, a lone last digit none.
RECURSIVE B64Bytes(_)
B64Bytes(ds) ==
  IF Len(ds) < 2 THEN <<>>
  ELSE IF Len(ds) = 2 THEN <<ds[1] * 4 + ds[2] \div 16>>
  ELSE IF Len(ds) = 3
    THEN <<ds[1] * 4 + ds[2] \div 16, (ds[2] % 16) * 16 + ds[3] \div 4>>
  ELSE <<ds[1] * 4 + ds[2] \div 16, (ds[2] % 16) * 16 + ds[3] \div 4,
         (ds[3] % 4) * 64 + ds[4]>> \o B64Bytes(Drop(ds, 4))

\* Buffer.from(str, 'base64'): never fails.
BufferFromBase64(str) == B64Bytes(B64Digits(str, 1))

(***************************************************************************)
(* bigint values as canonical hex digits.                                  *)
(***************************************************************************)
\* BigInt('0x' + hex): leading zero digits do not count.
RECURSIVE BigIntOfHex(_)
BigIntOfHex(hex) ==
  IF hex = <<>> THEN <<>>
  ELSE IF Head(hex) = 0 THEN BigIntOfHex(Tail(hex)) ELSE hex

\* value.toString(16): 0n prints as "0".
BigIntToHex(v) == IF v = <<>> THEN <<0>> ELSE v

\* The bigint of an integer >= 0.
RECURSIVE BigIntOf(_)
BigIntOf(i) == IF i = 0 THEN <<>> ELSE Append(BigIntOf(i \div 16), i % 16)

\* The first k digits of v mod m (Horner, never above 16 * m).
RECURSIVE BigModTo(_, _, _)
BigModTo(v, k, m) ==
  IF k = 0 THEN 0 ELSE (BigModTo(v, k - 1, m) * 16 + v[k]) % m

\* v mod m for an integer modulus m.
BigMod(v, m) == BigModTo(v, Len(v), m)

\* a < b digit by digit, for canonical a and b of one length.
RECURSIVE HexLess(_, _)
HexLess(a, b) ==
  IF a = <<>> THEN FALSE
  ELSE IF Head(a) # Head(b) THEN Head(a) < Head(b)
  ELSE HexLess(Tail(a), Tail(b))

\* a >= b on bigints.
BigGE(a, b) ==
  IF Len(a) # Len(b) THEN Len(a) > Len(b) ELSE ~HexLess(a, b)

\* The integer of a bigint small enough to be one.
RECURSIVE BigToIntFrom(_, _)
BigToIntFrom(v, acc) ==
  IF v = <<>> THEN acc ELSE BigToIntFrom(Tail(v), acc * 16 + Head(v))

BigToInt(v) == BigToIntFrom(v, 0)

(***************************************************************************)
(* JSON values.  Every value is a record of one shape, so that any two     *)
(* values can be compared: t is the type, s the text of a string, b the    *)
(* boolean, (neg, mant, ex) the number (-1)^neg * mant * 10^ex with mant   *)
(* not a multiple of 10 (0 is mant = 0, ex = 0), kids the elements of an   *)
(* array or the member values of an object, keys the member names.         *)
(***************************************************************************)
JVal(t, s, b, neg, mant, ex, keys, kids) ==
  [t |-> t, s |-> s, b |-> b, neg |-> neg, mant |-> mant, ex |-> ex,
   keys |-> keys, kids |-> kids]

JStr(s) == JVal("str", s, FALSE, FALSE, 0, 0, <<>>, <<>>)

JNull == JVal("null", <<>>, FALSE, FALSE, 0, 0, <<>>, <<>>)

JBool(b) == JVal("bool", <<>>, b, FALSE, 0, 0, <<>>, <<>>)

JArr(kids) == JVal("arr", <<>>, FALSE, FALSE, 0, 0, <<>>, kids)

JObj(keys, kids) == JVal("obj", <<>>, FALSE, FALSE, 0, 0, keys, kids)

\* The number (-1)^neg * mant * 10^ex, normalised.
RECURSIVE JNum(_, _, _)
JNum(neg, mant, ex) ==
  IF mant = 0 THEN JVal("num", <<>>, FALSE, neg, 0, 0, <<>>, <<>>)
  ELSE IF mant % 10 = 0 THEN JNum(neg, mant \div 10, ex + 1)
  ELSE JVal("num", <<>>, FALSE, neg, mant, ex, <<>>, <<>>)

JInt(i) == IF i < 0 THEN JNum(TRUE, -i, 0) ELSE JNum(FALSE, i, 0)

\* The position of key k in keys (0: absent).
KeyIndex(keys, k) ==
  IF \E i \in DOMAIN keys : keys[i] = k
    THEN CHOOSE i \in DOMAIN keys : keys[i] = k
  ELSE 0

\* Deep equality of two values: the members of an object in any order.
RECURSIVE DeepEqual(_, _)
DeepEqual(a, b) ==
  /\ a.t = b.t
  /\ a.s = b.s
  /\ a.b = b.b
  /\ a.neg = b.neg /\ a.mant = b.mant /\ a.ex = b.ex
  /\ Len(a.kids) = Len(b.kids)
  /\ IF a.t = "obj"
       THEN /\ Range(a.keys) = Range(b.keys)
            /\ \A i \in DOMAIN a.keys :
                 DeepEqual(a.kids[i], b.kids[KeyIndex(b.keys, a.keys[i])])
     ELSE \A i \in DOMAIN a.kids : DeepEqual(a.kids[i], b.kids[i])

(***************************************************************************)
(* JSON.stringify                                                          *)
(***************************************************************************)
\* The decimal digits of an integer >= 0, as characters.
RECURSIVE DecDigits(_)
DecDigits(i) ==
  IF i < 10 THEN <<48 + i>> ELSE Append(DecDigits(i \div 10), 48 + (i % 10))

HexDigitChar(v) == IF v < 10 THEN 48 + v ELSE 97 + (v - 10)

\* One character of a string literal: '"' and '\' are escaped, a control
\* character is written \b, \t, \n, \f, \r or \u00xx.
QuoteChar(c) ==
  IF c = 34 THEN <<92, 34>>
  ELSE IF c = 92 THEN <<92, 92>>
  ELSE IF c = 8 THEN <<92, 98>>
  ELSE IF c = 9 THEN <<92, 116>>
  ELSE IF c = 10 THEN <<92, 110>>
  ELSE IF c = 12 THEN <<92, 102>>
  ELSE IF c = 13 THEN <<92, 114>>
  ELSE IF c < 32
    THEN <<92, 117, 48, 48, HexDigitChar(c \div 16), HexDigitChar(c % 16)>>
  ELSE <<c>>

Quote(str) == <<34>> \o Flatten([i \in DOMAIN str |-> QuoteChar(str[i])]) \o <<34>>

Zeros(k) == [i \in 1..k |-> 48]

\* Number::toString for the numbers of the model (fewer than 21 integer digits,
\* at most 6 zeros after the point): -0 prints as "0".
NumberText(v) ==
  LET ds == DecDigits(v.mant)
      sign == IF v.neg /\ v.mant # 0 THEN <<45>> ELSE <<>>
  IN  IF v.ex >= 0 THEN sign \o ds \o Zeros(v.ex)
      ELSE IF Len(ds) > -v.ex
        THEN sign \o Take(ds, Len(ds) + v.ex) \o <<46>> \o Drop(ds, Len(ds) + v.ex)
      ELSE sign \o <<48, 46>> \o Zeros(-v.ex - Len(ds)) \o ds

RECURSIVE JoinComma(_)
JoinComma(ss) ==
  IF ss = <<>> THEN <<>>
  ELSE IF Len(ss) = 1 THEN ss[1]
  ELSE ss[1] \o <<44>> \o JoinComma(Tail(ss))

\* JSON.stringify(value) of a JSON-serializable value.
RECURSIVE stringify(_)
stringify(v) ==
  IF v.t = "str" THEN Quote(v.s)
  ELSE IF v.t = "num" THEN NumberText(v)
  ELSE IF v.t = "null" THEN <<110, 117, 108, 108>>
  ELSE IF v.t = "bool"
    THEN IF v.b THEN <<116, 114, 117, 101>> ELSE <<102, 97, 108, 115, 101>>
  ELSE IF v.t = "arr"
    THEN <<91>> \o JoinComma([i \in DOMAIN v.kids |-> stringify(v.kids[i])]) \o <<93>>
  ELSE <<123>>
       \o JoinComma([i \in DOMAIN v.kids |->
                       Quote(v.keys[i]) \o <<58>> \o stringify(v.kids[i])])
       \o <<125>>

(***************************************************************************)
(* JSON.parse: a parser of the JSON grammar.  A result is [ok, v, i]: the  *)
(* value read and the index after it; ok = FALSE is the SyntaxError.       *)
(***************************************************************************)
PR(ok, v, i) == [ok |-> ok, v |-> v, i |-> i]

ParseFail == PR(FALSE, JNull, 0)

\* The character at i, -1 past the end.
At(t, i) == IF i >= 1 /\ i <= Len(t) THEN t[i] ELSE -1

IsDigit(c) == c >= 48 /\ c <= 57

\* JSON white space: space, tab, line feed, carriage return.
RECURSIVE SkipWs(_, _)
SkipWs(t, i) == IF At(t, i) \in {32, 9, 10, 13} THEN SkipWs(t, i + 1) ELSE i

RECURSIVE DigitsEnd(_, _)
DigitsEnd(t, i) == IF IsDigit(At(t, i)) THEN DigitsEnd(t, i + 1) ELSE i

\* The value of the digits t[i..j-1], continuing from acc.
RECURSIVE DigitsVal(_, _, _, _)
DigitsVal(t, i, j, acc) ==
  IF i >= j THEN acc ELSE DigitsVal(t, i + 1, j, acc * 10 + (t[i] - 48))

HexVal(c) ==
  IF c >= 48 /\ c <= 57 THEN c - 48
  ELSE IF c >= 97 /\ c <= 102 THEN c - 97 + 10
  ELSE IF c >= 65 /\ c <= 70 THEN c - 65 + 10
  ELSE -1

\* number: -? (0 | [1-9][0-9]*) (. [0-9]+)? ([eE] [+-]? [0-9]+)?
ParseNumber(t, i) ==
  LET neg == At(t, i) = 45
      a == IF neg THEN i + 1 ELSE i
      intEnd == IF At(t, a) = 48 THEN a + 1 ELSE DigitsEnd(t, a)
      hasFrac == At(t, intEnd) = 46
      fracEnd == IF hasFrac THEN DigitsEnd(t, intEnd + 1) ELSE intEnd
      hasExp == At(t, fracEnd) \in {101, 69}
      expNeg == At(t, fracEnd + 1) = 45
      expStart == IF At(t, fracEnd + 1) \in {43, 45} THEN fracEnd + 2 ELSE fracEnd + 1
      expEnd == IF hasExp THEN DigitsEnd(t, expStart) ELSE fracEnd
      expVal == IF hasExp THEN DigitsVal(t, expStart, expEnd, 0) ELSE 0
      mant == IF hasFrac
                THEN DigitsVal(t, intEnd + 1, fracEnd, DigitsVal(t, a, intEnd, 0))
              ELSE DigitsVal(t, a, intEnd, 0)
      fracLen == IF hasFrac THEN fracEnd - intEnd - 1 ELSE 0
  IN  IF ~IsDigit(At(t, a)) THEN ParseFail
      ELSE IF hasFrac /\ fracEnd = intEnd + 1 THEN ParseFail
      ELSE IF hasExp /\ expEnd = expStart THEN ParseFail
      ELSE PR(TRUE,
              JNum(neg, mant, (IF expNeg THEN -expVal ELSE expVal) - fracLen),
              expEnd)

\* The characters of a string literal from i (after the opening quote) to the
\* closing quote: no raw control character, the escapes \" \\ \/ \b \f \n \r \t
\* and \uXXXX.
RECURSIVE StrLoop(_, _, _)
StrLoop(t, i, acc) ==
  LET c == At(t, i)
      esc == At(t, i + 1)
      h == [k \in 1..4 |-> HexVal(At(t, i + 1 + k))]
  IN  IF c = 34 THEN PR(TRUE, JStr(acc), i + 1)
      ELSE IF c < 32 THEN ParseFail
      ELSE IF c # 92 THEN StrLoop(t, i + 1, Append(acc, c))
      ELSE IF esc \in {34, 92, 47} THEN StrLoop(t, i + 2, Append(acc, esc))
      ELSE IF esc = 98 THEN StrLoop(t, i + 2, Append(acc, 8))
      ELSE IF esc = 102 THEN StrLoop(t, i + 2, Append(acc, 12))
      ELSE IF esc = 110 THEN StrLoop(t, i + 2, Append(acc, 10))
      ELSE IF esc = 114 THEN StrLoop(t, i + 2, Append(acc, 13))
      ELSE IF esc = 116 THEN StrLoop(t, i + 2, Append(acc, 9))
      ELSE IF esc = 117 /\ \A k \in 1..4 : h[k] >= 0
        THEN StrLoop(t, i + 6,
                     Append(acc, h[1] * 4096 + h[2] * 256 + h[3] * 16 + h[4]))
      ELSE ParseFail

\* The literal word at i.
Match(t, i, word) ==
  /\ i + Len(word) - 1 <= Len(t)
  /\ SubSeq(t, i, i + Len(word) - 1) = word

\* The members read so far with key k set to v: a repeated key keeps its place
\* and takes the last value.
PutMember(keys, kids, k, v) ==
  IF KeyIndex(keys, k) = 0 THEN <<Append(keys, k), Append(kids, v)>>
  ELSE <<keys, [kids EXCEPT ![KeyIndex(keys, k)] = v]>>

RECURSIVE ParseValue(_, _)
RECURSIVE ParseElems(_, _, _)
RECURSIVE ParseMembers(_, _, _, _)

\* The elements of an array from i, after '[' or ','.
ParseElems(t, i, acc) ==
  LET r == ParseValue(t, i)
      j == SkipWs(t, r.i)
  IN  IF ~r.ok THEN ParseFail
      ELSE IF At(t, j) = 44 THEN ParseElems(t, j + 1, Append(acc, r.v))
      ELSE IF At(t, j) = 93 THEN PR(TRUE, JArr(Append(acc, r.v)), j + 1)
      ELSE ParseFail

\* The members of an object from i, after '{' or ','.
ParseMembers(t, i, keys, kids) ==
  LET j == SkipWs(t, i)
      k == StrLoop(t, j + 1, <<>>)
      c == SkipWs(t, k.i)
      r == ParseValue(t, c + 1)
      d == SkipWs(t, r.i)
      m == PutMember(keys, kids, k.v.s, r.v)
  IN  IF At(t, j) # 34 THEN ParseFail
      ELSE IF ~k.ok THEN ParseFail
      ELSE IF At(t, c) # 58 THEN ParseFail
      ELSE IF ~r.ok THEN ParseFail
      ELSE IF At(t, d) = 44 THEN ParseMembers(t, d + 1, m[1], m[2])
      ELSE IF At(t, d) = 125 THEN PR(TRUE, JObj(m[1], m[2]), d + 1)
      ELSE ParseFail

ParseValue(t, i0) ==
  LET i == SkipWs(t, i0)
      c == At(t, i)
      j == SkipWs(t, i + 1)
  IN  IF c = 123
        THEN IF At(t, j) = 125 THEN PR(TRUE, JObj(<<>>, <<>>), j + 1)
             ELSE ParseMembers(t, j, <<>>, <<>>)
      ELSE IF c = 91
        THEN IF At(t, j) = 93 THEN PR(TRUE, JArr(<<>>), j + 1)
             ELSE ParseElems(t, j, <<>>)
      ELSE IF c = 34 THEN StrLoop(t, i + 1, <<>>)
      ELSE IF c = 45 \/ IsDigit(c) THEN ParseNumber(t, i)
      ELSE IF Match(t, i, <<116, 114, 117, 101>>) THEN PR(TRUE, JBool(TRUE), i + 4)
      ELSE IF Match(t, i, <<102, 97, 108, 115, 101>>) THEN PR(TRUE, JBool(FALSE), i + 5)
      ELSE IF Match(t, i, <<110, 117, 108, 108>>) THEN PR(TRUE, JNull, i + 4)
      ELSE ParseFail

\* The value r read from the start of text, when only white space follows it.
WholeText(text, r) ==
  IF r.ok /\ SkipWs(text, r.i) > Len(text) THEN r ELSE ParseFail

\* JSON.parse(text): one value between optional white space, and nothing else.
parse(text) == WholeText(text, ParseValue(text, 1))

(***************************************************************************)
(* The data codec and the transport encoding (index.ts, internal helpers). *)
(***************************************************************************)
\* dataToBigInt with JSON.stringify applied to strings as well.
dataToBigIntQuoted(data) ==
  LET hex == BufferToHex(BufferFromUtf8(stringify(data)))
  IN  IF Len(hex) > 0 THEN BigIntOfHex(hex) ELSE <<>>

\* dataToBigInt(data): a string as it is, any other value as its JSON text; the
\* UTF-8 bytes read as one hexadecimal number.
dataToBigInt(data) ==
  LET dataString == IF data.t = "str" THEN data.s ELSE stringify(data)
      buffer == BufferFromUtf8(dataString)
      hex == BufferToHex(buffer)
  IN  IF Len(hex) > 0 THEN BigIntOfHex(hex) ELSE <<>>

\* PadHex without the padding.
PadHexNone(hex) == hex

\* The hex string padded with a leading zero when its length is odd.
PadHex(hex) == IF Len(hex) % 2 # 0 THEN <<0>> \o hex ELSE hex

\* try { return JSON.parse(dataString) } catch { return dataString }
ParsedOrText(parsed, dataString) ==
  IF parsed.ok THEN parsed.v ELSE JStr(dataString)

\* JsonOrText without the parsing.
JsonOrTextRaw(dataString) == JStr(dataString)

JsonOrText(dataString) == ParsedOrText(parse(dataString), dataString)

\* bigIntToData without the guard for 0n.
bigIntToDataUnguarded(bigIntValue) ==
  JsonOrText(BufferToUtf8(BufferFromHex(PadHex(BigIntToHex(bigIntValue)))))

\* bigIntToData(bigIntValue): 0n is the empty string; otherwise the bytes of
\* the number as UTF-8 text, parsed as JSON when it parses.
bigIntToData(bigIntValue) ==
  IF bigIntValue = <<>> THEN JStr(<<>>)
  ELSE JsonOrText(BufferToUtf8(BufferFromHex(PadHex(BigIntToHex(bigIntValue)))))

\* bigIntToBase64 with the hex string read as text: Buffer.from(paddedHex).
bigIntToBase64Text(bigintValue) ==
  LET paddedHex == PadHex(BigIntToHex(bigintValue))
  IN  BufferToBase64(BufferFromUtf8([i \in DOMAIN paddedHex |->
                                       HexDigitChar(paddedHex[i])]))

\* bigIntToBase64(bigintValue)
bigIntToBase64(bigintValue) ==
  LET hex == BigIntToHex(bigintValue)
      paddedHex == PadHex(hex)
  IN  BufferToBase64(BufferFromHex(paddedHex))

\* base64ToBigInt(base64String)
base64ToBigInt(base64String) ==
  LET buffer == BufferFromBase64(base64String)
      hex == BufferToHex(buffer)
  IN  IF Len(hex) > 0 THEN BigIntOfHex(hex) ELSE <<>>

\* bcu.modPow on a bigint base and integer exponent and modulus.
modPowBig(b, ex, m) ==
  LET r == BigMod(b, m)
  IN  IF r < m THEN modPow(r, ex, m) ELSE 0

(***************************************************************************)
(* The key codec.  A PublicKey is [e, n], a PrivateKey [d, n].             *)
(***************************************************************************)
PublicKey(pe, m) == [e |-> pe, n |-> m]

PrivateKey(d, m) == [d |-> d, n |-> m]

\* Object.entries(key): the field names (as strings) and the values, in order.
KeyEntries(key) ==
  IF "e" \in DOMAIN key THEN <<<<<<101>>, key.e>>, <<<<110>>, key.n>>>>
  ELSE <<<<<<100>>, key.d>>, <<<<110>>, key.n>>>>

\* bigint.toString(): decimal, with a minus sign.
BigIntToString(i) == IF i < 0 THEN <<45>> \o DecDigits(-i) ELSE DecDigits(i)

\* exportKey(key): the Base64 of the JSON text of the fields as decimal strings.
exportKey(key) ==
  LET entries == KeyEntries(key)
      stringifiedKey == JObj([i \in DOMAIN entries |-> entries[i][1]],
                             [i \in DOMAIN entries |->
                                JStr(BigIntToString(entries[i][2]))])
      jsonString == stringify(stringifiedKey)
  IN  BufferToBase64(BufferFromUtf8(jsonString))

\* White space that StringToBigInt trims (the ASCII part of it).
RECURSIVE TrimLeft(_)
TrimLeft(str) ==
  IF str # <<>> /\ Head(str) \in {32, 9, 10, 11, 12, 13} THEN TrimLeft(Tail(str))
  ELSE str

RECURSIVE TrimRight(_)
TrimRight(str) ==
  IF str # <<>> /\ str[Len(str)] \in {32, 9, 10, 11, 12, 13}
    THEN TrimRight(Take(str, Len(str) - 1))
  ELSE str

\* The value of the digits t[i..] in the given radix, -1 when one of them is no
\* digit of that radix or there is none.
RECURSIVE RadixVal(_, _, _, _)
RadixVal(t, i, radix, acc) ==
  IF i > Len(t) THEN acc
  ELSE IF HexVal(t[i]) < 0 \/ HexVal(t[i]) >= radix THEN -1
  ELSE RadixVal(t, i + 1, radix, acc * radix + HexVal(t[i]))

\* BigInt(string): [ok, i].  White space is trimmed and the empty string is 0n;
\* a sign may precede decimal digits; 0x, 0o and 0b prefix hexadecimal, octal
\* and binary digits; anything else is a SyntaxError.
StringToBigInt(str) ==
  LET t == TrimRight(TrimLeft(str))
      signed == At(t, 1) \in {43, 45}
      a == IF signed THEN 2 ELSE 1
      val == DigitsVal(t, a, Len(t) + 1, 0)
      radix == IF At(t, 1) # 48 THEN 0
               ELSE IF At(t, 2) \in {120, 88} THEN 16
               ELSE IF At(t, 2) \in {111, 79} THEN 8
               ELSE IF At(t, 2) \in {98, 66} THEN 2
               ELSE 0
      pre == IF Len(t) >= 3 THEN RadixVal(t, 3, radix, 0) ELSE -1
  IN  IF t = <<>> THEN [ok |-> TRUE, i |-> 0]
      ELSE IF radix # 0 THEN [ok |-> pre >= 0, i |-> IF pre >= 0 THEN pre ELSE 0]
      ELSE IF a <= Len(t) /\ DigitsEnd(t, a) = Len(t) + 1
        THEN [ok |-> TRUE, i |-> IF At(t, 1) = 45 THEN -val ELSE val]
      ELSE [ok |-> FALSE, i |-> 0]

RECURSIVE Pow10(_)
Pow10(k) == IF k = 0 THEN 1 ELSE 10 * Pow10(k - 1)

\* String(value) of a parsed value, as Array.prototype.join renders an element.
RECURSIVE ToText(_)
ToText(v) ==
  IF v.t = "str" THEN v.s
  ELSE IF v.t = "num" THEN NumberText(v)
  ELSE IF v.t = "bool"
    THEN IF v.b THEN <<116, 114, 117, 101>> ELSE <<102, 97, 108, 115, 101>>
  ELSE IF v.t = "null" THEN <<>>
  ELSE IF v.t = "arr" THEN JoinComma([i \in DOMAIN v.kids |-> ToText(v.kids[i])])
  ELSE <<91, 111, 98, 106, 101, 99, 116, 32, 79, 98, 106, 101, 99, 116, 93>>

\* BigInt(value) of a field of the parsed key: [ok, i].  A string is parsed, a
\* boolean is 0n or 1n, an integral number converts, an array or an object goes
\* through its string; a missing field, null and a fraction throw.
ToBigInt(present, v) ==
  IF ~present \/ v.t = "null" THEN [ok |-> FALSE, i |-> 0]
  ELSE IF v.t = "str" THEN StringToBigInt(v.s)
  ELSE IF v.t = "bool" THEN [ok |-> TRUE, i |-> IF v.b THEN 1 ELSE 0]
  ELSE IF v.t = "num"
    THEN IF v.ex < 0 THEN [ok |-> FALSE, i |-> 0]
         ELSE [ok |-> TRUE,
               i |-> (IF v.neg THEN -1 ELSE 1) * v.mant * Pow10(v.ex)]
  ELSE StringToBigInt(ToText(v))

\* The field named k of a parsed key text: [ok, i] of BigInt(stringifiedKey.k).
KeyField(parsed, k) ==
  LET at == KeyIndex(parsed.v.keys, k)
  IN  IF ~parsed.ok \/ parsed.v.t = "null" THEN [ok |-> FALSE, i |-> 0]
      ELSE IF parsed.v.t # "obj" \/ at = 0 THEN ToBigInt(FALSE, JNull)
      ELSE ToBigInt(TRUE, parsed.v.kids[at])

\* importPublicKey(b64Key): [ok, key]; ok = FALSE when JSON.parse or BigInt throws.
PublicKeyFrom(pe, m) == [ok |-> pe.ok /\ m.ok, key |-> PublicKey(pe.i, m.i)]

PublicKeyOf(stringifiedKey) ==
  PublicKeyFrom(KeyField(stringifiedKey, <<101>>), KeyField(stringifiedKey, <<110>>))

importPublicKey(b64Key) ==
  PublicKeyOf(parse(BufferToUtf8(BufferFromBase64(b64Key))))

\* importPrivateKey(b64Key)
PrivateKeyFrom(d, m) == [ok |-> d.ok /\ m.ok, key |-> PrivateKey(d.i, m.i)]

PrivateKeyOf(stringifiedKey) ==
  PrivateKeyFrom(KeyField(stringifiedKey, <<100>>), KeyField(stringifiedKey, <<110>>))

\* importPrivateKey reading the field e where it should read d.
importPrivateKeyE(b64Key) ==
  PrivateKeyFrom(KeyField(parse(BufferToUtf8(BufferFromBase64(b64Key))), <<101>>),
                 KeyField(parse(BufferToUtf8(BufferFromBase64(b64Key))), <<110>>))

importPrivateKey(b64Key) ==
  PrivateKeyOf(parse(BufferToUtf8(BufferFromBase64(b64Key))))

(***************************************************************************)
(* The engine: new UniversalRSA(keys), encrypt, decrypt, sign, verify.     *)
(* A call's outcome is a record: status "ok" or the error thrown, str the  *)
(* string returned, val the value returned, ok the boolean returned, did   *)
(* the computations carried out before the call ended.                     *)
(***************************************************************************)
Outcome(status, str, val, ok, did) ==
  [status |-> status, str |-> str, val |-> val, ok |-> ok, did |-> did]

Thrown(status, did) == Outcome(status, <<>>, JNull, FALSE, did)

\* A constructor argument: omitted, a key object, or a string.
KeyArg(form, key, text) == [form |-> form, key |-> key, text |-> text]

Omitted == KeyArg("omit", <<>>, <<>>)

\* Truthy testing for undefined only, so that "" is imported.
TruthyDefined(arg) == arg.form # "omit"

\* Truthy accepting key objects only.
TruthyObject(arg) == arg.form = "obj"

\* The truthiness test of  if (keys?.publicKey): undefined and "" are falsy.
Truthy(arg) == arg.form = "obj" \/ (arg.form = "str" /\ arg.text # <<>>)

\* constructor(keys): [ok, engine]; ok = FALSE when an import throws.
\* One slot of the engine: null when the argument is falsy, the import of a
\* string, the object as it is.
Slot(arg, imported) ==
  IF ~Truthy(arg) THEN [ok |-> TRUE, slot |-> <<>>]
  ELSE IF arg.form = "str" THEN [ok |-> imported.ok, slot |-> <<imported.key>>]
  ELSE [ok |-> TRUE, slot |-> arg.key]

Built(pub, priv) ==
  [ok |-> pub.ok /\ priv.ok,
   engine |-> [publicKey |-> pub.slot, privateKey |-> priv.slot]]

constructor(pubArg, privArg) ==
  Built(Slot(pubArg, importPublicKey(pubArg.text)),
        Slot(privArg, importPrivateKey(privArg.text)))

\* TooLarge with > for >=.
TooLargeStrict(messageBigInt, m) ==
  IF m <= 0 THEN TRUE
  ELSE BigGE(messageBigInt, BigIntOf(m)) /\ messageBigInt # BigIntOf(m)

\* messageBigInt >= key.n
TooLarge(messageBigInt, m) ==
  IF m <= 0 THEN TRUE ELSE BigGE(messageBigInt, BigIntOf(m))

\* encrypt testing the private key where it should test the public key; reading
\* a field of the null public key is then a TypeError.
encryptOtherKey(engine, data) ==
  IF engine.privateKey = <<>> THEN Thrown("MissingKey", <<>>)
  ELSE IF engine.publicKey = <<>> THEN Thrown("TypeError", <<"dataToBigInt">>)
  ELSE LET key == engine.publicKey[1]
           messageBigInt == dataToBigInt(data)
           encryptedBigInt == modPowBig(messageBigInt, key.e, key.n)
       IN  IF BigGE(messageBigInt, BigIntOf(key.n))
             THEN Thrown("DataTooLarge", <<"dataToBigInt">>)
           ELSE Outcome("ok", bigIntToBase64(BigIntOf(encryptedBigInt)), JNull, FALSE,
                        <<"dataToBigInt", "modPow", "bigIntToBase64">>)

\* encrypt(data)
encrypt(engine, data) ==
  IF engine.publicKey = <<>> THEN Thrown("MissingKey", <<>>)
  ELSE LET key == engine.publicKey[1]
           messageBigInt == dataToBigInt(data)
           encryptedBigInt == modPowBig(messageBigInt, key.e, key.n)
       IN  IF TooLarge(messageBigInt, key.n)
             THEN Thrown("DataTooLarge", <<"dataToBigInt">>)
           ELSE Outcome("ok", bigIntToBase64(BigIntOf(encryptedBigInt)), JNull, FALSE,
                        <<"dataToBigInt", "modPow", "bigIntToBase64">>)

\* decrypt refusing a ciphertext whose integer is not below n.
decryptChecked(engine, ciphertextBase64) ==
  IF engine.privateKey = <<>> THEN Thrown("MissingKey", <<>>)
  ELSE LET key == engine.privateKey[1]
           encryptedBigInt == base64ToBigInt(ciphertextBase64)
           decryptedBigInt == modPowBig(encryptedBigInt, key.d, key.n)
       IN  IF TooLarge(encryptedBigInt, key.n)
             THEN Thrown("DataTooLarge", <<"base64ToBigInt">>)
           ELSE Outcome("ok", <<>>, bigIntToData(BigIntOf(decryptedBigInt)), FALSE,
                        <<"base64ToBigInt", "modPow", "bigIntToData">>)

\* decrypt(ciphertextBase64)
decrypt(engine, ciphertextBase64) ==
  IF engine.privateKey = <<>> THEN Thrown("MissingKey", <<>>)
  ELSE LET key == engine.privateKey[1]
           encryptedBigInt == base64ToBigInt(ciphertextBase64)
           decryptedBigInt == modPowBig(encryptedBigInt, key.d, key.n)
       IN  Outcome("ok", <<>>, bigIntToData(BigIntOf(decryptedBigInt)), FALSE,
                   <<"base64ToBigInt", "modPow", "bigIntToData">>)

\* sign(data): the data encoded as encrypt encodes it, raised to the private
\* exponent, in the transport encoding.  No size check.
sign(engine, data) ==
  IF engine.privateKey = <<>> THEN Thrown("MissingKey", <<>>)
  ELSE LET key == engine.privateKey[1]
           messageBigInt == dataToBigInt(data)
           signatureBigInt == modPowBig(messageBigInt, key.d, key.n)
       IN  Outcome("ok", bigIntToBase64(BigIntOf(signatureBigInt)), JNull, FALSE,
                   <<"dataToBigInt", "modPow", "bigIntToBase64">>)

\* verify(data, signatureBase64): the signature decoded as decrypt decodes a
\* ciphertext, raised to the public exponent and compared with the encoded data.
verify(engine, data, signatureBase64) ==
  IF engine.publicKey = <<>> THEN Thrown("MissingKey", <<>>)
  ELSE LET key == engine.publicKey[1]
           messageBigInt == dataToBigInt(data)
           signatureBigInt == base64ToBigInt(signatureBase64)
           recovered == modPowBig(signatureBigInt, key.e, key.n)
       IN  Outcome("ok", <<>>, JNull, BigIntOf(recovered) = messageBigInt,
                   <<"dataToBigInt", "base64ToBigInt", "modPow">>)

(***************************************************************************)
(* generateKeys                                                            *)
(***************************************************************************)
\* const e = 65537n
e == 65537

RECURSIVE Pow2(_)
Pow2(k) == IF k = 0 THEN 1 ELSE 2 * Pow2(k - 1)

\* The primes the prime source of the model draws from: one of 2 bits (a source
\* that returns the same prime at every draw), two of 3 bits, two of 4 bits and
\* two of 8 bits (151 * 211 = 31861 is 7C75 in hexadecimal, the bytes of the two
\* characters "|u").
PrimePool == {3, 5, 7, 11, 13, 151, 211}

\* The bitLength arguments generateKeys is called with.
BitLengths == {4, 6, 7, 8, 16}

\* bitLength / 2: a JavaScript number, whole or a whole number and a half.
Halved(bitLength) == [whole |-> bitLength \div 2, half |-> bitLength % 2 = 1]

\* bcu.prime(bitLength): a prime of exactly that many bits.  For a length that
\* is not whole the library promises nothing: the prime has the bits of the
\* length rounded down or rounded up.
prime(bitLength) ==
  { x \in PrimePool :
      /\ Pow2(bitLength.whole - 1) <= x
      /\ x < Pow2(bitLength.whole + (IF bitLength.half THEN 1 ELSE 0)) }

\* A loop condition that keeps every draw.
LoopAgainNever(pp, qq) == FALSE

\* The loop condition  p === q || bcu.gcd(e, phi) !== 1n
LoopAgain(pp, qq) == pp = qq \/ gcd(e, (pp - 1) * (qq - 1)) # 1

\* The value returned for the final p and q.
KeyPairOf(pp, qq) ==
  LET d == modInv(e, (pp - 1) * (qq - 1))
  IN  [publicKey |-> PublicKey(e, pp * qq), privateKey |-> PrivateKey(d, pp * qq)]

(***************************************************************************)
(* The inputs of the calls.                                                *)
(***************************************************************************)
\* The characters of the enumerated strings: NUL, '1' and 'a'.
Alphabet == {0, 49, 97}

RECURSIVE StringsOfLen(_)
StringsOfLen(k) ==
  IF k = 0 THEN {<<>>}
  ELSE { Append(str, c) : str \in StringsOfLen(k - 1), c \in Alphabet }

\* Further strings: "|u", "|t", "{}", two quotes and a rocket (four bytes of
\* UTF-8).
ExtraStrings ==
  { <<124, 117>>, <<124, 116>>, <<123, 125>>, <<34, 34>>, <<128640>> }

\* Values that are not strings: {}, [], 1, null, {"a":[true,"1"]} and
\* {"a":9140}.
Structured ==
  { JObj(<<>>, <<>>), JArr(<<>>), JInt(1), JNull,
    JObj(<<<<97>>>>, <<JArr(<<JBool(TRUE), JStr(<<49>>)>>)>>),
    JObj(<<<<97>>>>, <<JInt(9140)>>) }

DataValues ==
  { JStr(str) : str \in UNION { StringsOfLen(k) : k \in 0..MaxStrLen } \cup ExtraStrings }
    \cup Structured

\* Further strings given to the data codec: a tab, "\0a", "\01", "a\0", "123",
\* "null" and "a1".
CodecStrings ==
  { <<9>>, <<0, 97>>, <<0, 49>>, <<97, 0>>, <<49, 50, 51>>,
    <<110, 117, 108, 108>>, <<97, 49>> }

\* The values given to the data codec.
CodecData == DataValues \cup { JStr(str) : str \in CodecStrings }

\* The integers given to the transport encoding: 0..MaxInt, 2^32 and 2^36 - 1.
TransportInts ==
  { BigIntOf(i) : i \in 0..MaxInt }
    \cup { <<1, 0, 0, 0, 0, 0, 0, 0, 0>>, <<15, 15, 15, 15, 15, 15, 15, 15, 15>> }

\* The replacements tried for one character of a string: 'A', 'B', 'R', '!'.
TamperChars == {65, 66, 82, 33}

\* The strings that differ from str in exactly one position.
OneCharChanged(str) ==
  UNION { { [str EXCEPT ![i] = c] : c \in TamperChars \ {str[i]} } :
          i \in DOMAIN str }

\* Strings that are no exported key: "**", "bm90IGpzb24=" (the Base64 of
\* "not json"), "e30=" (the Base64 of "{}") and "e30" (the same without its
\* padding).
KeyTexts ==
  { <<42, 42>>,
    <<98, 109, 57, 48, 73, 71, 112, 122, 98, 50, 52, 61>>,
    <<101, 51, 48, 61>>, <<101, 51, 48>> }

\* Strings that are not Base64: str after a '!', "**", and the test's
\* "this is not a valid base64 string".
Malformed(str) ==
  { <<33>> \o str, <<42, 42>>,
    <<116, 104, 105, 115, 32, 105, 115, 32, 110, 111, 116, 32, 97, 32, 118, 97,
      108, 105, 100, 32, 98, 97, 115, 101, 54, 52, 32, 115, 116, 114, 105, 110,
      103>> }

(***************************************************************************)
(* The state machine.                                                      *)
(***************************************************************************)
\* An engine without keys: both slots are null.
NoEngine == [publicKey |-> <<>>, privateKey |-> <<>>]

\* The string last produced: its kind, the data or the key it was made from and
\* the engine that made it.
NoWire ==
  [kind |-> "none", text |-> <<>>, data |-> JNull, key |-> <<>>, by |-> NoEngine]

NoRes ==
  [op |-> "none", status |-> "none", data |-> JNull, text |-> <<>>, str |-> <<>>,
   val |-> JNull, ok |-> FALSE, did |-> <<>>, key |-> <<>>, forms |-> <<>>]

\* The record of a call of op on (data, text) with outcome out.
Res(op, data, text, out) ==
  [NoRes EXCEPT !.op = op, !.status = out.status, !.data = data, !.text = text,
                !.str = out.str, !.val = out.val, !.ok = out.ok, !.did = out.did]

\* The record of an import of text with outcome r.
ImportRes(op, text, r) ==
  [NoRes EXCEPT !.op = op, !.text = text,
                !.status = IF r.ok THEN "ok" ELSE "ImportError",
                !.key = IF r.ok THEN <<r.key>> ELSE <<>>]

\* The string a call sends on: out.str made from data under key, and nothing
\* when the call failed.
Sent(kind, data, key, out) ==
  IF out.status = "ok"
    THEN [kind |-> kind, text |-> out.str, data |-> data, key |-> key, by |-> eng]
  ELSE NoWire

\* The generateKeys calls that run concurrently.
Calls == {1, 2}

\* A call that has not started.
NoCall ==
  [pc |-> "idle", bits |-> 0, p |-> 0, q |-> 0, n |-> 0, phi |-> 0,
   ret |-> <<>>, overlap |-> FALSE]

NoCalls == [c \in Calls |-> NoCall]

\* generateKeys(bitLength) is called: it runs to its first await.  The caller
\* has no pair until the call returns, and the strings made from an earlier
\* pair are dropped.
GenerateKeys(bitLength) ==
  /\ pc \in {"idle", "done"}
  /\ pc' = "awaitP"
  /\ bits' = bitLength
  /\ p' = 0 /\ q' = 0 /\ n' = 0 /\ phi' = 0
  /\ pair' = <<>> /\ wire' = NoWire /\ res' = NoRes
  /\ UNCHANGED <<eng, calls>>

\* p = await bcu.prime(bitLength / 2)
PrimeP ==
  /\ pc = "awaitP"
  /\ \E x \in prime(Halved(bits)) : p' = x
  /\ pc' = "awaitQ"
  /\ UNCHANGED <<bits, q, n, phi, calls, pair, eng, wire, res>>

\* PrimeQ with a loop that is never left.
PrimeQNoExit ==
  /\ pc = "awaitQ"
  /\ \E x \in prime(Halved(bits)) :
       /\ q' = x
       /\ n' = p * x
       /\ phi' = (p - 1) * (x - 1)
       /\ pc' = "awaitP" /\ pair' = pair
  /\ UNCHANGED <<bits, p, calls, eng, wire, res>>

\* q = await bcu.prime(bitLength / 2); n and phi; then the loop test, and the
\* return when it lets the loop end.
PrimeQ ==
  /\ pc = "awaitQ"
  /\ \E x \in prime(Halved(bits)) :
       /\ q' = x
       /\ n' = p * x
       /\ phi' = (p - 1) * (x - 1)
       /\ IF LoopAgain(p, x)
            THEN pc' = "awaitP" /\ pair' = pair
          ELSE pc' = "done" /\ pair' = <<KeyPairOf(p, x)>>
  /\ UNCHANGED <<bits, p, calls, eng, wire, res>>

\* exportKey(key) of the public or the private key of the generated pair.
ExportKey(kind) ==
  /\ pair # <<>>
  /\ \E key \in {IF kind = "pub" THEN pair[1].publicKey ELSE pair[1].privateKey} :
     \E text \in {exportKey(key)} :
       /\ wire' = [NoWire EXCEPT !.kind = kind, !.text = text, !.key = <<key>>]
       /\ res' = [NoRes EXCEPT !.op = "exportKey", !.status = "ok", !.str = text]
  /\ UNCHANGED <<genVars, pair, eng>>

\* The strings the imports are called with: the last exported string, that
\* string after a '!', that string with a '*' after its fourth character, and
\* the strings of KeyTexts.
KeyInputs ==
  { wire.text, <<33>> \o wire.text,
    Take(wire.text, 4) \o <<42>> \o Drop(wire.text, 4) } \cup KeyTexts

\* importPublicKey(b64Key)
ImportPublicKey(b64Key) ==
  /\ wire.kind \in {"pub", "priv"}
  /\ res' = ImportRes("importPublicKey", b64Key, importPublicKey(b64Key))
  /\ UNCHANGED <<genVars, pair, eng, wire>>

\* importPrivateKey(b64Key)
ImportPrivateKey(b64Key) ==
  /\ wire.kind \in {"pub", "priv"}
  /\ res' = ImportRes("importPrivateKey", b64Key, importPrivateKey(b64Key))
  /\ UNCHANGED <<genVars, pair, eng, wire>>

\* The argument that passes key in the given form.
FormArg(form, key) ==
  IF form = "omit" THEN Omitted
  ELSE IF form = "str" THEN KeyArg("str", <<>>, exportKey(key))
  ELSE KeyArg("obj", <<key>>, <<>>)

\* new UniversalRSA({publicKey, privateKey}) with the keys of the generated
\* pair, each omitted, given as an object or given as its exported string.
Construct(pubForm, privForm) ==
  /\ pair # <<>>
  /\ \E c \in {constructor(FormArg(pubForm, pair[1].publicKey),
                           FormArg(privForm, pair[1].privateKey))} :
       /\ eng' = IF c.ok THEN c.engine ELSE eng
       /\ res' = [NoRes EXCEPT !.op = "construct",
                    !.status = IF c.ok THEN "ok" ELSE "ImportError",
                    !.forms = <<pubForm, privForm>>]
  /\ UNCHANGED <<genVars, pair, wire>>

\* engine.encrypt(data); the ciphertext goes on the wire.
Encrypt(data) ==
  /\ \E out \in {encrypt(eng, data)} :
       /\ res' = Res("encrypt", data, <<>>, out)
       /\ wire' = Sent("ct", data, eng.publicKey, out)
  /\ UNCHANGED <<genVars, pair, eng>>

\* The strings decrypt is called with: the ciphertext on the wire, the
\* transport encoding of its integer plus n, that ciphertext after a '!',
\* and "**".
CiphertextInputs ==
  { wire.text,
    bigIntToBase64(BigIntOf(BigToInt(base64ToBigInt(wire.text))
                              + pair[1].privateKey.n)),
    <<33>> \o wire.text, <<42, 42>> }

\* decrypt dropping the keys of the engine after use.
DecryptForgetting(ciphertextBase64) ==
  /\ wire.kind = "ct"
  /\ res' = Res("decrypt", JNull, ciphertextBase64, decrypt(eng, ciphertextBase64))
  /\ eng' = NoEngine
  /\ UNCHANGED <<genVars, pair, wire>>

\* engine.decrypt(ciphertextBase64)
Decrypt(ciphertextBase64) ==
  /\ wire.kind = "ct"
  /\ res' = Res("decrypt", JNull, ciphertextBase64, decrypt(eng, ciphertextBase64))
  /\ UNCHANGED <<genVars, pair, eng, wire>>

\* engine.sign(data); the signature goes on the wire.
Sign(data) ==
  /\ \E out \in {sign(eng, data)} :
       /\ res' = Res("sign", data, <<>>, out)
       /\ wire' = Sent("sig", data, eng.privateKey, out)
  /\ UNCHANGED <<genVars, pair, eng>>

\* The signature strings verify is called with: the signature on the wire, and
\* for the signed data also that string with one character changed and strings
\* that are not Base64.
SignatureInputs(data) ==
  IF data = wire.data
    THEN {wire.text} \cup OneCharChanged(wire.text) \cup Malformed(wire.text)
  ELSE {wire.text}

\* engine.verify(data, signature)
Verify(data, signature) ==
  /\ wire.kind = "sig"
  /\ res' = Res("verify", data, signature, verify(eng, data, signature))
  /\ UNCHANGED <<genVars, pair, eng, wire>>

\* The key generator and the key codec.
InitKeys ==
  /\ pc = "idle" /\ bits = 0 /\ p = 0 /\ q = 0 /\ n = 0 /\ phi = 0
  /\ calls = NoCalls
  /\ pair = <<>>
  /\ eng = NoEngine
  /\ wire = NoWire
  /\ res = NoRes

NextKeys ==
  \/ \E b \in BitLengths : GenerateKeys(b)
  \/ PrimeP
  \/ PrimeQ
  \/ \E kind \in {"pub", "priv"} : ExportKey(kind)
  \/ \E b64Key \in KeyInputs : ImportPublicKey(b64Key)
  \/ \E b64Key \in KeyInputs : ImportPrivateKey(b64Key)

SpecKeys == InitKeys /\ [][NextKeys]_vars

\* The key generator with a prime source that settles every awaited draw and
\* that, whenever it can, eventually yields a draw the loop keeps.
SpecKeysFair ==
  /\ SpecKeys
  /\ WF_vars(PrimeP)
  /\ WF_vars(PrimeQ)
  /\ SF_vars(PrimeQ /\ pc' = "done")

\* The engine: the state after a generateKeys call for a modulus of two
\* bytes has returned and  new UniversalRSA()  has built an engine without
\* keys.  The pair does not depend on the order of p and q.
Init ==
  /\ pc = "done" /\ bits = 2 * 8
  /\ p \in prime(Halved(bits)) /\ q \in prime(Halved(bits))
  /\ p < q /\ ~LoopAgain(p, q)
  /\ n = p * q /\ phi = (p - 1) * (q - 1)
  /\ calls = NoCalls
  /\ pair = <<KeyPairOf(p, q)>>
  /\ eng = NoEngine
  /\ wire = NoWire
  /\ res = NoRes

Next ==
  \/ \E pubForm, privForm \in {"omit", "obj", "str"} : Construct(pubForm, privForm)
  \/ \E data \in DataValues : Encrypt(data)
  \/ \E ciphertextBase64 \in CiphertextInputs : Decrypt(ciphertextBase64)
  \/ \E data \in DataValues : Sign(data)
  \/ \E data \in DataValues : \E signature \in SignatureInputs(data) :
       Verify(data, signature)

Spec == Init /\ [][Next]_vars

\* dataToBigInt(data); the integer goes on the wire.
DataToBigInt(data) ==
  /\ \E v \in {dataToBigInt(data)} :
       /\ res' = [NoRes EXCEPT !.op = "dataToBigInt", !.status = "ok",
                               !.data = data, !.str = v]
       /\ wire' = [NoWire EXCEPT !.kind = "int", !.text = v, !.data = data]
  /\ UNCHANGED <<genVars, pair, eng>>

\* bigIntToData(bigIntValue) of the integer on the wire.
BigIntToData ==
  /\ wire.kind = "int"
  /\ res' = [NoRes EXCEPT !.op = "bigIntToData", !.status = "ok",
                          !.str = wire.text, !.val = bigIntToData(wire.text)]
  /\ UNCHANGED <<genVars, pair, eng, wire>>

\* bigIntToBase64(bigintValue); the string goes on the wire.
BigIntToBase64(bigintValue) ==
  /\ \E text \in {bigIntToBase64(bigintValue)} :
       /\ res' = [NoRes EXCEPT !.op = "bigIntToBase64", !.status = "ok",
                               !.str = text]
       /\ wire' = [NoWire EXCEPT !.kind = "b64", !.text = text,
                                 !.key = <<bigintValue>>]
  /\ UNCHANGED <<genVars, pair, eng>>

\* base64ToBigInt(base64String) of the string on the wire.
Base64ToBigInt ==
  /\ wire.kind \in {"b64", "ct"}
  /\ res' = [NoRes EXCEPT !.op = "base64ToBigInt", !.status = "ok",
                          !.text = wire.text,
                          !.key = <<base64ToBigInt(wire.text)>>]
  /\ UNCHANGED <<genVars, pair, eng, wire>>

\* The codecs: the state after generateKeys has returned the pair of two bytes
\* and an engine was built from both keys.
InitCodec ==
  /\ pc = "done" /\ bits = 2 * 8
  /\ p \in prime(Halved(bits)) /\ q \in prime(Halved(bits))
  /\ p < q /\ ~LoopAgain(p, q)
  /\ n = p * q /\ phi = (p - 1) * (q - 1)
  /\ calls = NoCalls
  /\ pair = <<KeyPairOf(p, q)>>
  /\ eng = constructor(FormArg("obj", pair[1].publicKey),
                       FormArg("obj", pair[1].privateKey)).engine
  /\ wire = NoWire
  /\ res = NoRes

NextCodec ==
  \/ \E data \in CodecData : DataToBigInt(data)
  \/ BigIntToData
  \/ \E bigintValue \in TransportInts : BigIntToBase64(bigintValue)
  \/ Base64ToBigInt
  \/ \E data \in CodecData : Encrypt(data)

SpecCodec == InitCodec /\ [][NextCodec]_vars

\* Another call is suspended at an await while call c takes a step.
Overlaps(c) ==
  \E o \in Calls \ {c} : calls[o].pc \in {"awaitP", "awaitQ"}

\* Call c of generateKeys(bitLength) starts and runs to its first await.
CallGenerateKeys(c, bitLength) ==
  /\ calls[c].pc \in {"idle", "done"}
  /\ calls' = [calls EXCEPT ![c] =
                 [NoCall EXCEPT !.pc = "awaitP", !.bits = bitLength]]
  /\ UNCHANGED <<pc, bits, p, q, n, phi, pair, eng, wire, res>>

\* Call c resumes with p = await bcu.prime(bitLength / 2).
CallPrimeP(c) ==
  /\ calls[c].pc = "awaitP"
  /\ \E x \in prime(Halved(calls[c].bits)) :
       calls' = [calls EXCEPT ![c].p = x, ![c].pc = "awaitQ",
                              ![c].overlap = @ \/ Overlaps(c)]
  /\ UNCHANGED <<pc, bits, p, q, n, phi, pair, eng, wire, res>>

\* CallPrimeQ with p kept in one variable that all calls write.
CallPrimeQShared(c) ==
  /\ calls[c].pc = "awaitQ"
  /\ \E x \in prime(Halved(calls[c].bits)) :
     \E pp \in { IF calls[o].p # 0 THEN calls[o].p ELSE calls[c].p :
                   o \in Calls \ {c} } :
       calls' = [calls EXCEPT ![c] =
         [@ EXCEPT !.q = x, !.n = pp * x, !.phi = (pp - 1) * (x - 1),
                   !.overlap = @ \/ Overlaps(c),
                   !.pc = IF LoopAgain(pp, x) THEN "awaitP" ELSE "done",
                   !.ret = IF LoopAgain(pp, x) THEN <<>>
                           ELSE <<KeyPairOf(pp, x)>>]]
  /\ UNCHANGED <<pc, bits, p, q, n, phi, pair, eng, wire, res>>

\* Call c resumes with q = await bcu.prime(bitLength / 2), computes n and phi
\* from its own p and q, tests the loop condition and returns when the loop ends.
CallPrimeQ(c) ==
  /\ calls[c].pc = "awaitQ"
  /\ \E x \in prime(Halved(calls[c].bits)) :
     \E pp \in {calls[c].p} :
       calls' = [calls EXCEPT ![c] =
         [@ EXCEPT !.q = x, !.n = pp * x, !.phi = (pp - 1) * (x - 1),
                   !.overlap = @ \/ Overlaps(c),
                   !.pc = IF LoopAgain(pp, x) THEN "awaitP" ELSE "done",
                   !.ret = IF LoopAgain(pp, x) THEN <<>>
                           ELSE <<KeyPairOf(pp, x)>>]]
  /\ UNCHANGED <<pc, bits, p, q, n, phi, pair, eng, wire, res>>

\* The bitLength arguments of the concurrent calls.
ConcurrentBitLengths == {6, 8}

\* The data the shared engine encrypts while the calls run: "a" and {}.
ConcurrentData == { JStr(<<97>>), JObj(<<>>, <<>>) }

\* Concurrent callers: two generateKeys calls that interleave at their awaits,
\* and encrypt and decrypt calls on one engine that holds both keys.
NextConcurrent ==
  \/ \E c \in Calls : \E b \in ConcurrentBitLengths : CallGenerateKeys(c, b)
  \/ \E c \in Calls : CallPrimeP(c)
  \/ \E c \in Calls : CallPrimeQ(c)
  \/ \E data \in ConcurrentData : Encrypt(data)
  \/ \E ciphertextBase64 \in CiphertextInputs : Decrypt(ciphertextBase64)

SpecConcurrent == InitCodec /\ [][NextConcurrent]_vars

\* The forms a key argument of the constructor takes: omitted, the key object,
\* its exported string, the empty string, the Base64 of "not json" and the
\* Base64 of "{}".
ArgForms == {"omit", "obj", "str", "empty", "notJson", "noFields"}

\* The argument that passes key in the given form.
TextArg(form, key) ==
  IF form = "empty" THEN KeyArg("str", <<>>, <<>>)
  ELSE IF form = "notJson"
    THEN KeyArg("str", <<>>,
                <<98, 109, 57, 48, 73, 71, 112, 122, 98, 50, 52, 61>>)
  ELSE IF form = "noFields" THEN KeyArg("str", <<>>, <<101, 51, 48, 61>>)
  ELSE FormArg(form, key)

\* new UniversalRSA({publicKey, privateKey}) with each key in one of ArgForms.
\* When an import throws no engine is built and the caller keeps the one it had.
ConstructFrom(pubForm, privForm) ==
  /\ pair # <<>>
  /\ \E c \in {constructor(TextArg(pubForm, pair[1].publicKey),
                           TextArg(privForm, pair[1].privateKey))} :
       /\ eng' = IF c.ok THEN c.engine ELSE eng
       /\ res' = [NoRes EXCEPT !.op = "construct",
                    !.status = IF c.ok THEN "ok" ELSE "ImportError",
                    !.forms = <<pubForm, privForm>>]
  /\ UNCHANGED <<genVars, pair, wire>>

\* Engines built from every form of argument, then used to encrypt and decrypt.
NextConstruct ==
  \/ \E pubForm, privForm \in ArgForms : ConstructFrom(pubForm, privForm)
  \/ \E data \in ConcurrentData : Encrypt(data)
  \/ \E ciphertextBase64 \in CiphertextInputs : Decrypt(ciphertextBase64)

SpecConstruct == Init /\ [][NextConstruct]_vars

(***************************************************************************)
(* The properties of the engine (Spec) and of the keys (SpecKeys).         *)
(***************************************************************************)
\* The modulus n of the generated pair.
Modulus == pair[1].publicKey.n

\* The encoded integer of data is less than n.
Fits(data) == ~BigGE(dataToBigInt(data), BigIntOf(Modulus))

\* The encoded integer of data modulo n.
Residue(data) == BigMod(dataToBigInt(data), Modulus)

\* A value that decoding reproduces: a value its JSON text represents exactly,
\* or a string that is no JSON text and does not start with U+0000.
Exact(data) ==
  IF data.t = "str"
    THEN ~parse(data.s).ok /\ (data.s = <<>> \/ data.s[1] # 0)
  ELSE parse(stringify(data)).ok /\ parse(stringify(data)).v = data

\* decrypt has returned for the ciphertext that encrypt made of wire.data.
Decrypted ==
  res.op = "decrypt" /\ res.status = "ok" /\ wire.kind = "ct" /\ res.text = wire.text

\* verify has returned for a call with the signature that sign made of wire.data.
Verified ==
  res.op = "verify" /\ res.status = "ok" /\ wire.kind = "sig" /\ res.text = wire.text

\* C1 (amended): for data whose encoded integer is less than n, decrypt of
\* encrypt(data) equals data when data is a value its JSON text represents
\* exactly or a string that is no JSON text and does not start with U+0000,
\* whichever engines of the pair encrypt and decrypt.
C1_RoundTrip == (Decrypted /\ Exact(wire.data)) => DeepEqual(res.val, wire.data)

\* The empty object, encrypted by an engine with the public key only, has come
\* back from an engine with the private key only.
C1_Witness ==
  /\ Decrypted
  /\ wire.data = JObj(<<>>, <<>>) /\ res.val = wire.data
  /\ wire.by.privateKey = <<>> /\ eng.publicKey = <<>>

\* C1 as stated: decrypt(encrypt(data)) equals data for every supported data
\* value whose encoded integer is less than n.
C1_Original == Decrypted => DeepEqual(res.val, wire.data)

C6_MissingKey ==
  /\ res.op \in {"encrypt", "verify"} =>
       (res.status = "MissingKey" <=> eng.publicKey = <<>>)
  /\ res.op \in {"decrypt", "sign"} =>
       (res.status = "MissingKey" <=> eng.privateKey = <<>>)
  /\ res.status = "MissingKey" => res.did = <<>>

\* encrypt of data too large for the key, by an engine with the private key
\* only, has failed with MissingKey.
C6_Witness ==
  /\ res.op = "encrypt" /\ res.status = "MissingKey"
  /\ ~Fits(res.data) /\ eng.privateKey # <<>>

\* C7: with a public key loaded, encrypt fails with DataTooLarge exactly when
\* the encoded integer m is at least n, having computed no modPow; otherwise it
\* returns the canonical transport encoding of the c < n with c^d mod n = m.
C7_DataTooLarge ==
  (res.op = "encrypt" /\ eng.publicKey # <<>>) =>
    /\ res.status = "DataTooLarge" <=>
         BigGE(dataToBigInt(res.data), BigIntOf(Modulus))
    /\ res.status = "DataTooLarge" => "modPow" \notin Range(res.did)
    /\ res.status # "DataTooLarge" =>
         /\ res.status = "ok"
         /\ res.str = bigIntToBase64(base64ToBigInt(res.str))
         /\ ~BigGE(base64ToBigInt(res.str), BigIntOf(Modulus))
         /\ modPowBig(base64ToBigInt(res.str), pair[1].privateKey.d, Modulus)
              = BigToInt(dataToBigInt(res.data))

\* encrypt of the string "|u", whose encoded integer is n, has failed.
C7_Witness ==
  /\ res.op = "encrypt" /\ res.status = "DataTooLarge"
  /\ res.data = JStr(<<124, 117>>)
  /\ dataToBigInt(res.data) = BigIntOf(Modulus)

\* C8: importPublicKey of an exported public key and importPrivateKey of an
\* exported private key return the key that was exported.
C8_KeyRoundTrip ==
  /\ (res.op = "importPublicKey" /\ wire.kind = "pub" /\ res.text = wire.text) =>
       (res.status = "ok" /\ res.key = wire.key)
  /\ (res.op = "importPrivateKey" /\ wire.kind = "priv" /\ res.text = wire.text) =>
       (res.status = "ok" /\ res.key = wire.key)

\* The private key of the two-byte modulus has been exported and imported.
C8_Witness ==
  /\ res.op = "importPrivateKey" /\ wire.kind = "priv" /\ res.text = wire.text
  /\ res.key = wire.key /\ wire.key[1].n = 151 * 211

\* The moduli below which every message is tried.
MaxExhaustive == 150

\* The messages tried for modulus m: all of them for a small m, the ends of the
\* range and a few between them for a large m.
Messages(m) ==
  IF m <= MaxExhaustive THEN 0..(m - 1)
  ELSE {0, 1, 2, 3, 97, 12345, m \div 2, m - 2, m - 1}

\* C9: a returned pair has one modulus in both keys, and (m^e)^d mod n = m for
\* the messages m < n.
C9_ValidPair ==
  pair # <<>> =>
    /\ pair[1].publicKey.n = pair[1].privateKey.n
    /\ \A m \in Messages(Modulus) :
         modPow(modPow(m, pair[1].publicKey.e, Modulus),
                pair[1].privateKey.d, Modulus) = m

\* generateKeys has returned the pair of 11 and 13.
C9_Witness == pc = "done" /\ pair # <<>> /\ Modulus = 11 * 13

\* The form of a key argument with the string replaced by the object.
AsObject(form) == IF form = "str" THEN "obj" ELSE form

\* C10: an engine built from exported strings is the engine built from the key
\* objects, slot by slot, and a slot is null exactly when its key was omitted.
C10_StringAsObject ==
  res.op = "construct" =>
    /\ res.status = "ok"
    /\ eng = constructor(FormArg(AsObject(res.forms[1]), pair[1].publicKey),
                         FormArg(AsObject(res.forms[2]), pair[1].privateKey)).engine
    /\ res.forms[1] = "omit" <=> eng.publicKey = <<>>
    /\ res.forms[2] = "omit" <=> eng.privateKey = <<>>

\* An engine has been built from the exported strings of both keys.
C10_Witness ==
  /\ res.op = "construct" /\ res.forms = <<"str", "str">>
  /\ eng.publicKey = <<pair[1].publicKey>>
  /\ eng.privateKey = <<pair[1].privateKey>>

\* A call of one of the four instance methods.
IsCall(r) == r.op \in {"encrypt", "decrypt", "sign", "verify"}

\* The outcome of the call recorded in r when engine makes it.
Recomputed(engine, r) ==
  IF r.op = "encrypt" THEN encrypt(engine, r.data)
  ELSE IF r.op = "decrypt" THEN decrypt(engine, r.text)
  ELSE IF r.op = "sign" THEN sign(engine, r.data)
  ELSE verify(engine, r.data, r.text)

\* The call recorded in r had the outcome out.
SameOutcome(r, out) ==
  /\ r.status = out.status /\ r.str = out.str /\ r.val = out.val
  /\ r.ok = out.ok /\ r.did = out.did

\* C11: a call of encrypt, decrypt, sign or verify, failed or not, leaves both
\* key slots of the engine as they were, and its outcome is the outcome of that
\* call on these keys and its arguments, whatever was called before.
C11_Frame ==
  [][IsCall(res') =>
       (eng' = eng /\ SameOutcome(res', Recomputed(eng, res')))]_vars

\* An engine with the public key only has encrypted and then failed to
\* decrypt, and still has the public key only.
C11_Witness ==
  /\ wire.kind = "ct" /\ wire.by = eng
  /\ res.op = "decrypt" /\ res.status = "MissingKey"
  /\ eng.publicKey # <<>> /\ eng.privateKey = <<>>

\* str is Base64: groups of four characters of the alphabet, the last group
\* ending in no, one or two '='.
IsBase64(str) ==
  /\ Len(str) % 4 = 0
  /\ \A i \in DOMAIN str :
       \/ B64Value(str[i]) < 64
       \/ /\ str[i] = 61
          /\ i >= Len(str) - 1
          /\ str[Len(str)] = 61

\* The text an import reads from b64Key is JSON.
IsJsonKeyText(b64Key) == parse(BufferToUtf8(BufferFromBase64(b64Key))).ok

\* C12 as stated: importPublicKey and importPrivateKey fail, and return no key,
\* for every string that is not Base64 or whose decoded text is not JSON.
C12_Original ==
  (/\ res.op \in {"importPublicKey", "importPrivateKey"}
   /\ ~IsBase64(res.text) \/ ~IsJsonKeyText(res.text))
    => (res.status = "ImportError" /\ res.key = <<>>)

\* x is a prime number.
IsPrime(x) == x > 1 /\ \A k \in 2..(x - 1) : x % k # 0

\* The draw of p and q is one the loop keeps.
GoodDraw(pp, qq) == pp # qq /\ gcd(65537, (pp - 1) * (qq - 1)) = 1

Stuck(b) ==
  b > 0 /\ \A x, y \in prime(Halved(b)) : ~GoodDraw(x, y)

\* C14: with a prime source that eventually yields a draw the loop keeps, a
\* started generateKeys call eventually returns a pair; with a source that
\* always yields the same prime the call never returns, and no pair exists.
C14_Completes ==
  /\ (pc = "awaitP" /\ ~Stuck(bits)) ~> (pc = "done" /\ pair # <<>>)
  /\ [](Stuck(bits) => (pc # "done" /\ pair = <<>>))

\* generateKeys(4) has drawn 3 for p and for q and is drawing again.
C14_Witness == bits = 4 /\ pc = "awaitP" /\ p = 3 /\ q = 3 /\ pair = <<>>

\* The whole number k as a JavaScript number.
Whole(k) == [whole |-> k, half |-> FALSE]

\* C15 as stated: for every bitLength a running generateKeys call asks
\* bcu.prime for primes of floor(bitLength / 2) bits.
C15_Original ==
  pc \in {"awaitP", "awaitQ"} => Halved(bits) = Whole(bits \div 2)

\* The integer that the bytes buf are in base 256, most significant byte first.
RECURSIVE Base256(_)
Base256(buf) ==
  IF buf = <<>> THEN 0
  ELSE Base256(Take(buf, Len(buf) - 1)) * 256 + buf[Len(buf)]

\* The text dataToBigInt encodes: a string itself, another value's JSON text.
TextOf(data) == IF data.t = "str" THEN data.s ELSE stringify(data)

\* bigIntToData has returned for the integer that dataToBigInt made of
\* wire.data.
Decoded == res.op = "bigIntToData" /\ wire.kind = "int" /\ res.str = wire.text

\* C16 (amended): encode reads the UTF-8 bytes of the text as a base-256 integer,
\* most significant byte first, the empty string as 0; decode(encode(d)) equals
\* d for every value d its JSON text represents exactly and every string d that
\* is no JSON text and does not start with U+0000, the empty string included.
C16_Reversible ==
  /\ (wire.kind = "int" /\ Len(BufferFromUtf8(TextOf(wire.data))) <= 3) =>
       wire.text = BigIntOf(Base256(BufferFromUtf8(TextOf(wire.data))))
  /\ (Decoded /\ Exact(wire.data)) => DeepEqual(res.val, wire.data)

\* The empty string was encoded to 0 and 0 decoded to the empty string.
C16_Witness ==
  Decoded /\ wire.data = JStr(<<>>) /\ wire.text = <<>> /\ res.val = JStr(<<>>)

\* C16 as stated: decode(encode(d)) equals d for every string and every
\* JSON-serializable value d.
C16_Original == Decoded => DeepEqual(res.val, wire.data)

\* C17 (amended): for a string that is a JSON text, decode after encode returns
\* the parsed value and not the string; for a string that is no JSON text and
\* does not start with U+0000 it returns the string itself.
C17_JsonText ==
  (Decoded /\ wire.data.t = "str") =>
    IF parse(wire.data.s).ok
      THEN res.val = parse(wire.data.s).v /\ res.val # wire.data
    ELSE (wire.data.s = <<>> \/ wire.data.s[1] # 0) => res.val = wire.data

\* The string "123" was encoded and decoded to the number 123.
C17_Witness ==
  Decoded /\ wire.data = JStr(<<49, 50, 51>>) /\ res.val = JInt(123)

\* C17 as stated: for a string that is a JSON text, decode after encode returns
\* the parsed value and not the string; for every other string it returns the
\* string itself.
C17_Original ==
  (Decoded /\ wire.data.t = "str") =>
    IF parse(wire.data.s).ok
      THEN res.val = parse(wire.data.s).v /\ res.val # wire.data
    ELSE res.val = wire.data

\* The bytes of the integer i, most significant first, and one zero byte for 0.
RECURSIVE MinimalBytes(_)
MinimalBytes(i) ==
  IF i < 256 THEN <<i>> ELSE Append(MinimalBytes(i \div 256), i % 256)

\* C19: base64ToBigInt(bigIntToBase64(c)) is c; bigIntToBase64(c) is the Base64
\* of the bytes of c, most significant first and without a leading zero byte
\* (one zero byte for 0); a ciphertext of encrypt decodes to an integer c with
\* 0 <= c < n.
C19_Transport ==
  /\ (res.op = "base64ToBigInt" /\ wire.kind = "b64") => res.key = wire.key
  /\ (wire.kind = "b64" /\ Len(wire.key[1]) <= 3) =>
       wire.text = BufferToBase64(MinimalBytes(BigToInt(wire.key[1])))
  /\ wire.kind = "b64" =>
       Len(BufferFromBase64(wire.text)) =
         (IF wire.key[1] = <<>> THEN 1 ELSE (Len(wire.key[1]) + 1) \div 2)
  /\ (res.op = "base64ToBigInt" /\ wire.kind = "ct") =>
       ~BigGE(res.key[1], BigIntOf(Modulus))

\* 0 was encoded as "AA==" and decoded to 0.
C19_Witness ==
  /\ res.op = "base64ToBigInt" /\ wire.kind = "b64"
  /\ wire.key = <<<<>>>> /\ wire.text = <<65, 65, 61, 61>> /\ res.key = <<<<>>>>

\* C18: with a private key loaded decrypt returns for every ciphertext string;
\* for a ciphertext whose integer c is at least n it returns what it returns
\* for c mod n, the decoding of (c mod n)^d mod n; decrypt, sign and verify
\* never fail with DataTooLarge.
C18_DecryptTotal ==
  /\ (res.op = "decrypt" /\ eng.privateKey # <<>>) =>
       /\ res.status = "ok"
       /\ res.val =
            bigIntToData(BigIntOf(modPow(BigMod(base64ToBigInt(res.text), Modulus),
                                         pair[1].privateKey.d, Modulus)))
  /\ res.op \in {"decrypt", "sign", "verify"} => res.status # "DataTooLarge"

\* The ciphertext of "a" with n added to its integer was decrypted to "a".
C18_Witness ==
  /\ res.op = "decrypt" /\ res.status = "ok" /\ wire.kind = "ct"
  /\ res.text # wire.text
  /\ BigGE(base64ToBigInt(res.text), BigIntOf(Modulus))
  /\ wire.data = JStr(<<97>>) /\ res.val = JStr(<<97>>)

\* The engine that holds both keys of the pair.
BothKeys ==
  [publicKey |-> <<pair[1].publicKey>>, privateKey |-> <<pair[1].privateKey>>]

\* The pair a returned call has is computed from the p and q of that call.
OwnPair(k) ==
  /\ k.ret # <<>>
  /\ k.p \in prime(Halved(k.bits)) /\ k.q \in prime(Halved(k.bits))
  /\ GoodDraw(k.p, k.q)
  /\ k.n = k.p * k.q /\ k.phi = (k.p - 1) * (k.q - 1)
  /\ k.ret[1].publicKey.e = 65537
  /\ k.ret[1].publicKey.n = k.p * k.q
  /\ k.ret[1].privateKey.n = k.p * k.q
  /\ (k.ret[1].privateKey.d * 65537) % ((k.p - 1) * (k.q - 1)) = 1

\* C20: of two generateKeys calls that interleave at their awaits, each returns
\* a pair with n = its own p * q in both keys and d inverting e modulo its own
\* (p-1)(q-1), and a call that has not returned has no pair; an encrypt or
\* decrypt call on the shared engine made meanwhile has the outcome of that
\* call made alone.
C20_Concurrent ==
  /\ \A c \in Calls :
       IF calls[c].pc = "done" THEN OwnPair(calls[c]) ELSE calls[c].ret = <<>>
  /\ eng = BothKeys
  /\ IsCall(res) => SameOutcome(res, Recomputed(BothKeys, res))

\* Both calls have returned, one the pair of 5 and 7 and the other the pair of
\* 13 and 11, each having taken a step while the other was suspended, and the
\* shared engine has decrypted {} meanwhile.
C20_Witness ==
  /\ calls[1].pc = "done" /\ calls[2].pc = "done"
  /\ calls[1].overlap /\ calls[2].overlap
  /\ calls[1].ret[1].publicKey.n = 5 * 7
  /\ calls[2].ret[1].publicKey.n = 13 * 11 /\ calls[2].p = 13
  /\ Decrypted /\ res.val = JObj(<<>>, <<>>)

\* The form of a key argument with the empty string replaced by omission.
AsOmitted(form) == IF form = "empty" THEN "omit" ELSE form

\* The import a non-empty string in the public (slot 1) or private (slot 2)
\* argument is passed to: [ok, key].
Imported(slot, form) ==
  IF slot = 1 THEN importPublicKey(TextArg(form, pair[1].publicKey).text)
  ELSE importPrivateKey(TextArg(form, pair[1].privateKey).text)

\* The forms that are non-empty strings.
TextForms == {"str", "notJson", "noFields"}

\* The slot of the engine an argument of the given form fills.
SlotOf(slot, form, engine) ==
  IF slot = 1 THEN engine.publicKey ELSE engine.privateKey

\* C21: a constructor call with "" for a key makes no import of it and does not
\* fail because of it: the call has the outcome of the call with that key
\* omitted, the slot is null, and encrypt (for the public key) or decrypt (for
\* the private key) on that engine fails with MissingKey; a non-empty string
\* goes to the import of its slot, whose key fills the slot and whose failure
\* is the failure of the constructor, which then builds no engine.
C21_EmptyString ==
  [][ /\ res'.op = "construct" =>
           LET f == res'.forms
               c == constructor(TextArg(AsOmitted(f[1]), pair[1].publicKey),
                                TextArg(AsOmitted(f[2]), pair[1].privateKey))
           IN  /\ res'.status = IF c.ok THEN "ok" ELSE "ImportError"
               /\ res'.status = "ok" => eng' = c.engine
               /\ res'.status # "ok" => eng' = eng
               /\ (\A i \in 1..2 : f[i] \in {"empty", "omit", "obj"})
                    => res'.status = "ok"
               /\ \A i \in 1..2 :
                    /\ (f[i] = "empty" /\ res'.status = "ok")
                         => SlotOf(i, f[i], eng') = <<>>
                    /\ (f[i] \in TextForms /\ ~Imported(i, f[i]).ok)
                         => res'.status = "ImportError"
                    /\ (f[i] \in TextForms /\ res'.status = "ok")
                         => SlotOf(i, f[i], eng') = <<Imported(i, f[i]).key>>
      /\ (res.op = "construct" /\ res.status = "ok") =>
           /\ (res.forms[1] = "empty" /\ res'.op = "encrypt")
                => (res'.status = "MissingKey" /\ res'.did = <<>>)
           /\ (res.forms[2] = "empty" /\ res'.op = "decrypt")
                => (res'.status = "MissingKey" /\ res'.did = <<>>)
    ]_vars

\* The constructor was called with "" for the public key and the exported
\* string of the private key: it returned an engine with no public key and the
\* imported private key.
C21_Witness ==
  /\ res.op = "construct" /\ res.status = "ok"
  /\ res.forms = <<"empty", "str">>
  /\ eng.publicKey = <<>> /\ eng.privateKey = <<pair[1].privateKey>>

====
